---- MODULE Spec2Model ----
(***************************************************************************)
(* Model of packages/os/generate-eni-max-pods.py: one HTTP fetch, one scan *)
(* over the <table> elements of the parsed page, one loop over the rows of *)
(* the selected table, one line printed per row that parses.               *)
(*                                                                         *)
(* Text is a sequence of one-character strings, so that strip(), int() and *)
(* the formatting of the printed line are computed character by character. *)
(* A table is the record [texts, kids, deep, rows]: the number of its      *)
(* direct text-node children, of its direct element children, of its       *)
(* deeper element descendants, and the list of its <tr> rows; a row is the *)
(* list of the texts of its <td> cells.                                    *)
(***************************************************************************)
EXTENDS Integers, Sequences, FiniteSets

(* ------------------------------ bounds --------------------------------- *)

MaxTables == 2

MaxRows == 2

MaxCells == 3

(* ------------------------- program constants --------------------------- *)

Threshold == 50

(* ------------------------------- text ---------------------------------- *)

Digits == <<"0", "1", "2", "3", "4", "5", "6", "7", "8", "9">>

IsDigit(c) == \E d \in DOMAIN Digits : Digits[d] = c

DigitVal(c) == (CHOOSE d \in DOMAIN Digits : Digits[d] = c) - 1

IsSpace(c) == c \in {" ", "\t", "\n"}

RECURSIVE LStrip(_)
LStrip(s) == IF s # <<>> /\ IsSpace(Head(s)) THEN LStrip(Tail(s)) ELSE s

RECURSIVE RStrip(_)
RStrip(s) ==
    IF s # <<>> /\ IsSpace(s[Len(s)]) THEN RStrip(SubSeq(s, 1, Len(s) - 1)) ELSE s

\* str.strip(): leading and trailing whitespace removed
Strip(s) == RStrip(LStrip(s))

\* the digits of an integer literal, after an optional sign
Unsigned(s) == IF s # <<>> /\ Head(s) \in {"-", "+"} THEN Tail(s) ELSE s

\* int(s) returns a value: optional sign, then one or more decimal digits
\* (surrounding whitespace is accepted by int() itself)
IsIntLiteral(s) ==
    LET u == Unsigned(Strip(s))
    IN  u # <<>> /\ \A k \in DOMAIN u : IsDigit(u[k])

RECURSIVE DigitsVal(_)
DigitsVal(u) ==
    IF u = <<>> THEN 0
    ELSE 10 * DigitsVal(SubSeq(u, 1, Len(u) - 1)) + DigitVal(u[Len(u)])

\* int(s) where IsIntLiteral(s); Python integers are unbounded
ParseInt(s) ==
    LET b == Strip(s)
    IN  IF Head(b) = "-" THEN 0 - DigitsVal(Unsigned(b)) ELSE DigitsVal(Unsigned(b))

RECURSIVE NatToStr(_)
NatToStr(n) ==
    IF n < 10 THEN <<Digits[n + 1]>>
    ELSE NatToStr(n \div 10) \o <<Digits[(n % 10) + 1]>>

\* f'{n}' for an int
IntToStr(n) == IF n < 0 THEN <<"-">> \o NatToStr(0 - n) ELSE NatToStr(n)

(* ------------------------------ inputs --------------------------------- *)

TypeTexts == {<<"a">>, <<" ", "b", " ">>}

EniTexts == {<<"4">>, <<"1">>, <<"0">>, <<"x">>}

IpTexts == {<<" ", "3", "0">>, <<"-", "1">>, <<>>}

ExtraTexts == {<<"z">>}

\* the texts a <td> at position k of a row may hold
CellTexts(k) ==
    IF k = 1 THEN TypeTexts
    ELSE IF k = 2 THEN EniTexts
    ELSE IF k = 3 THEN IpTexts
    ELSE ExtraTexts

RowsOfLen(n) == {r \in [1..n -> TypeTexts \cup EniTexts \cup IpTexts \cup ExtraTexts] :
                    \A k \in 1..n : r[k] \in CellTexts(k)}

Rows == UNION {RowsOfLen(n) : n \in 0..MaxCells}

RowSeqs == UNION {[1..n -> Rows] : n \in 0..MaxRows}

GoodRow == <<<<"a">>, <<"4">>, <<" ", "3", "0">>>>

LightRowSeqs == {<<>>, <<GoodRow>>}

\* a table too small by either count
Tiny == [texts |-> 0, kids |-> 10, deep |-> 20]

\* rows wrapped in one <tbody>: few children, many descendants
Wrapped == [texts |-> 2, kids |-> 1, deep |-> Threshold + 10]

\* many direct element children
Flat == [texts |-> 0, kids |-> Threshold + 1, deep |-> 20]

\* many direct children, most of them text nodes; few elements in all
Texty == [texts |-> 30, kids |-> Threshold - 29, deep |-> 20]

Shapes == {Tiny, Wrapped, Flat, Texty}

Table(shape, rs) ==
    [texts |-> shape.texts, kids |-> shape.kids, deep |-> shape.deep, rows |-> rs]

LightTables == {Table(s, rs) : s \in Shapes, rs \in LightRowSeqs}

\* documents that vary the tables
LightDocuments == UNION {[1..n -> LightTables] : n \in 0..MaxTables}

\* documents that vary the rows of one table that passes the size test
RowDocuments == {<<Table(Flat, rs)>> : rs \in RowSeqs}

Statuses == {200, 404}

\* before the fetch there is no response
NoResponse == [status_code |-> 0, text |-> <<>>]

\* a response: its status and its body, the body given as the tables it parses to
Responses ==
    {[status_code |-> s, text |-> d] : s \in Statuses, d \in LightDocuments}
        \cup {[status_code |-> 200, text |-> d] : d \in RowDocuments}

(* ------------------------------- state --------------------------------- *)

VARIABLES pc, response, tables, ti, t, rows, ri, out, exit_code, error

vars == <<pc, response, tables, ti, t, rows, ri, out, exit_code, error>>

Running == 0 - 1

Init ==
    /\ pc = "fetch"
    /\ response = NoResponse
    /\ tables = <<>>
    /\ ti = 1
    /\ t = 0
    /\ rows = <<>>
    /\ ri = 1
    /\ out = <<>>
    /\ exit_code = Running
    /\ error = "none"

\* an uncaught exception: traceback on stderr, exit status 1
Raise(e) ==
    /\ pc' = "exit"
    /\ exit_code' = 1
    /\ error' = e

(* ------------------------------ actions -------------------------------- *)

\* requests.get returns a response, whatever its status
Fetch ==
    /\ pc = "fetch"
    /\ \E r \in Responses : response' = r
    /\ pc' = "parse"
    /\ UNCHANGED <<tables, ti, t, rows, ri, out, exit_code, error>>

\* requests.get raises (DNS, connection, timeout)
FetchRaises ==
    /\ pc = "fetch"
    /\ Raise("RequestException")
    /\ UNCHANGED <<response, tables, ti, t, rows, ri, out>>

\* BeautifulSoup(response.text) and findAll('table')
ParseTables ==
    /\ pc = "parse"
    /\ tables' = response.text
    /\ ti' = 1
    /\ pc' = "scan"
    /\ UNCHANGED <<response, t, rows, ri, out, exit_code, error>>

\* a size that counts the element descendants instead of the direct children
TagLen_Descendants(table) == table.kids + table.deep

\* len(table): the number of the tag's direct children, text nodes included
TagLen(table) == table.texts + table.kids

\* a table loop that keeps the first match instead of overwriting it
ForTable_KeepFirst ==
    /\ pc = "scan"
    /\ ti \in DOMAIN tables
    /\ t' = IF TagLen(tables[ti]) > Threshold /\ t = 0 THEN ti ELSE t
    /\ ti' = ti + 1
    /\ UNCHANGED <<pc, response, tables, rows, ri, out, exit_code, error>>

\* one iteration of `for table in tables`
ForTable ==
    /\ pc = "scan"
    /\ ti \in DOMAIN tables
    /\ t' = IF TagLen(tables[ti]) > Threshold THEN ti ELSE t
    /\ ti' = ti + 1
    /\ UNCHANGED <<pc, response, tables, rows, ri, out, exit_code, error>>

\* rows = t.find_all("tr"), once the table loop is exhausted
FindRows ==
    /\ pc = "scan"
    /\ ti \notin DOMAIN tables
    /\ IF t = 0
       THEN /\ Raise("NameError")
            /\ UNCHANGED <<rows, ri>>
       ELSE /\ rows' = tables[t].rows
            /\ ri' = 1
            /\ pc' = "rows"
            /\ UNCHANGED <<exit_code, error>>
    /\ UNCHANGED <<response, tables, ti, t, out>>

\* the formula without the decrement of the second factor
max_pods_NoDecrement(instance_enis, ips_per_eni) == (instance_enis - 1) * ips_per_eni + 2

\* the formula without the constant term
max_pods_NoOffset(instance_enis, ips_per_eni) == (instance_enis - 1) * (ips_per_eni - 1)

max_pods(instance_enis, ips_per_eni) == (instance_enis - 1) * (ips_per_eni - 1) + 2

\* f'{instance_type} {max_pods}'
FormatLine(instance_type, n) == instance_type \o <<" ">> \o IntToStr(n)

\* a loop body without the `len(cells) < 1` guard: cells[0] raises on an empty row
RowOutcome_NoEmptyGuard(cells) ==
    IF Len(cells) < 2 THEN [kind |-> "IndexError"]
    ELSE IF ~IsIntLiteral(Strip(cells[2])) THEN [kind |-> "continue"]
    ELSE IF Len(cells) < 3 THEN [kind |-> "IndexError"]
    ELSE IF ~IsIntLiteral(Strip(cells[3])) THEN [kind |-> "continue"]
    ELSE [kind |-> "print",
          line |-> FormatLine(Strip(cells[1]),
                              max_pods(ParseInt(Strip(cells[2])),
                                       ParseInt(Strip(cells[3]))))]

\* the body of `for row in rows` on the cells of one row
RowOutcome(cells) ==
    IF Len(cells) < 1 THEN [kind |-> "continue"]
    ELSE IF Len(cells) < 2 THEN [kind |-> "IndexError"]
    ELSE IF ~IsIntLiteral(Strip(cells[2])) THEN [kind |-> "continue"]
    ELSE IF Len(cells) < 3 THEN [kind |-> "IndexError"]
    ELSE IF ~IsIntLiteral(Strip(cells[3])) THEN [kind |-> "continue"]
    ELSE [kind |-> "print",
          line |-> FormatLine(Strip(cells[1]),
                              max_pods(ParseInt(Strip(cells[2])),
                                       ParseInt(Strip(cells[3]))))]

\* a row loop that drops a line equal to one already printed
ForRow_Dedup ==
    /\ pc = "rows"
    /\ ri \in DOMAIN rows
    /\ LET o == RowOutcome(rows[ri])
       IN  IF o.kind = "IndexError"
           THEN /\ Raise("IndexError")
                /\ UNCHANGED <<ri, out>>
           ELSE /\ out' = IF o.kind = "print" /\ \A k \in DOMAIN out : out[k] # o.line
                           THEN Append(out, o.line) ELSE out
                /\ ri' = ri + 1
                /\ UNCHANGED <<pc, exit_code, error>>
    /\ UNCHANGED <<response, tables, ti, t, rows>>

\* one iteration of `for row in rows`
ForRow ==
    /\ pc = "rows"
    /\ ri \in DOMAIN rows
    /\ LET o == RowOutcome(rows[ri])
       IN  IF o.kind = "IndexError"
           THEN /\ Raise("IndexError")
                /\ UNCHANGED <<ri, out>>
           ELSE /\ out' = IF o.kind = "print" THEN Append(out, o.line) ELSE out
                /\ ri' = ri + 1
                /\ UNCHANGED <<pc, exit_code, error>>
    /\ UNCHANGED <<response, tables, ti, t, rows>>

\* the row loop is exhausted: the script ends
Finish ==
    /\ pc = "rows"
    /\ ri \notin DOMAIN rows
    /\ pc' = "exit"
    /\ exit_code' = 0
    /\ UNCHANGED <<response, tables, ti, t, rows, ri, out, error>>

Next ==
    \/ Fetch
    \/ FetchRaises
    \/ ParseTables
    \/ ForTable
    \/ FindRows
    \/ ForRow
    \/ Finish

Spec == Init /\ [][Next]_vars

(* ---------------------- what the claims speak of ----------------------- *)

Max(S) == CHOOSE m \in S : \A n \in S : n <= m

\* the fetch failed: an exception, or an answer with a non-success status
FetchFailed ==
    \/ error = "RequestException"
    \/ response # NoResponse /\ response.status_code # 200

\* the tables of the document that pass the program's size test
Qualifying == {k \in DOMAIN tables : TagLen(tables[k]) > Threshold}

\* the row loop has been entered
TableFound == pc = "rows" \/ (pc = "exit" /\ error \in {"none", "IndexError"})

\* cells 1 and 2 exist and both convert to integers
Parses(r) == Len(r) >= 3 /\ IsIntLiteral(r[2]) /\ IsIntLiteral(r[3])

\* exactly 1 or 2 data cells
Short(r) == Len(r) \in {1, 2}

\* no data cell, or three or more cells with a non-numeric cell 1 or cell 2
Skippable(r) == Len(r) = 0 \/ (Len(r) >= 3 /\ ~Parses(r))

\* the indices, in order, of the rows among the first n that parse
RECURSIVE ParsedUpTo(_)
ParsedUpTo(n) ==
    IF n = 0 THEN <<>>
    ELSE IF Parses(rows[n]) THEN Append(ParsedUpTo(n - 1), n)
    ELSE ParsedUpTo(n - 1)

\* the rows the loop has gone through so far are rows[1 .. ri - 1]
ParsedIdx == ParsedUpTo(ri - 1)

\* a printed line read back: the text before and after its last space
LastSpace(line) == Max({k \in DOMAIN line : line[k] = " "})

LineType(line) == SubSeq(line, 1, LastSpace(line) - 1)

LineNumber(line) == SubSeq(line, LastSpace(line) + 1, Len(line))

(* ------------------------------- claims -------------------------------- *)

\* C1: a failed fetch, a non-200 answer included, ends the run with a non-zero
\* exit before the table scan and the row loop, and nothing is printed.
C1_FetchFailureIsFatal ==
    FetchFailed =>
        /\ pc \notin {"scan", "rows"}
        /\ out = <<>>
        /\ (pc = "exit" => exit_code # 0)

\* C2: the run never stops at a row of 1 or 2 data cells: such a row is passed
\* over without output and the loop goes on to the rows after it.
C2_ShortRowIsSkipped ==
    \A k \in DOMAIN rows : (Short(rows[k]) /\ ri = k) => pc = "rows"

\* C3: with no table over the threshold the run ends with a non-zero exit and
\* prints nothing, and it ends by an explicit check, not by evaluating the
\* unbound table variable.
C3_NoTableFailsFast ==
    (pc = "exit" /\ response # NoResponse /\ t = 0) =>
        /\ exit_code # 0
        /\ out = <<>>
        /\ error # "NameError"

\* C4: once the row loop is entered, the table whose rows it goes through is the
\* last table of the document, in document order, that passes the size test.
C4_LastQualifyingSelected ==
    TableFound =>
        /\ Qualifying # {}
        /\ t = Max(Qualifying)
        /\ rows = tables[t].rows

C4_Witness ==
    /\ pc = "rows"
    /\ Len(tables) = 2
    /\ Qualifying = {1, 2}
    /\ tables[1].rows # tables[2].rows
    /\ rows = tables[2].rows

\* C5: the integer printed for the j-th parsed row, with interface count e and
\* IPs-per-interface count i, reads back as (e - 1) * (i - 1) + 2.
C5_PrintedValue ==
    \A j \in DOMAIN out \cap DOMAIN ParsedIdx :
        LET r == rows[ParsedIdx[j]]
            e == ParseInt(r[2])
            i == ParseInt(r[3])
        IN  /\ IsIntLiteral(LineNumber(out[j]))
            /\ ParseInt(LineNumber(out[j])) = (e - 1) * (i - 1) + 2

C5_Witness ==
    /\ ri = 3
    /\ rows[1] = <<<<" ", "b", " ">>, <<"0">>, <<" ", "3", "0">>>>
    /\ rows[2] = <<<<"a">>, <<"4">>, <<" ", "3", "0">>>>
    /\ out = <<<<"b", " ", "-", "2", "7">>, <<"a", " ", "8", "9">>>>

\* C6: the printed lines are, in order, one per parsed row among the rows gone
\* through: same count, same instance types in the same order.
C6_OneLinePerParsedRowInOrder ==
    /\ Len(out) = Len(ParsedIdx)
    /\ \A j \in DOMAIN out : LineType(out[j]) = Strip(rows[ParsedIdx[j]][1])

C6_Witness ==
    /\ pc = "exit"
    /\ exit_code = 0
    /\ Len(rows) = 2
    /\ rows[1] = rows[2]
    /\ Len(out) = 2
    /\ out[1] = out[2]

\* C7: a step of the row loop prints only for a row whose cells 1 and 2 both
\* convert, and a row with no data cell, or with three or more cells of which
\* cell 1 or 2 is non-numeric, prints nothing, raises nothing and is followed
\* by the next row.
C7_SilentSkip ==
    [][(pc = "rows" /\ ri \in DOMAIN rows) =>
            /\ (out' # out => Parses(rows[ri]))
            /\ (Skippable(rows[ri]) =>
                    /\ out' = out
                    /\ pc' = "rows"
                    /\ ri' = ri + 1
                    /\ error' = "none"
                    /\ exit_code' = Running)]_vars

C7_Witness ==
    /\ pc = "exit"
    /\ exit_code = 0
    /\ Len(rows) = 2
    /\ Len(rows[1]) = 3
    /\ Skippable(rows[1])
    /\ Parses(rows[2])
    /\ Len(out) = 1

\* C8: a run whose fetch succeeded and that found a table ends with exit code
\* zero, having gone through every row of the table.
C8_ExitZeroAfterAllRows ==
    (pc = "exit" /\ response.status_code = 200 /\ t # 0) =>
        /\ exit_code = 0
        /\ ri = Len(rows) + 1

\* C9 as stated: every printed value is positive.
C9_AlwaysPositive ==
    \A j \in DOMAIN out : ParseInt(LineNumber(out[j])) > 0

\* C9: the value printed for a parsed row whose interface count and
\* IPs-per-interface count are both at least 1 is positive.
C9_PositiveForPositiveCounts ==
    \A j \in DOMAIN out \cap DOMAIN ParsedIdx :
        LET r == rows[ParsedIdx[j]]
        IN  (ParseInt(r[2]) >= 1 /\ ParseInt(r[3]) >= 1) =>
                ParseInt(LineNumber(out[j])) > 0

C9_Witness ==
    /\ ri = 2
    /\ rows[1] = <<<<"a">>, <<"1">>, <<" ", "3", "0">>>>
    /\ out = <<<<"a", " ", "2">>>>

\* C10 as stated: the tables scanned so far that were taken are those with more
\* than 50 element descendants.
C10_DescendantElements ==
    pc \in {"scan", "rows", "exit"} =>
        t = Max({0} \cup {k \in DOMAIN tables :
                            k < ti /\ tables[k].kids + tables[k].deep > Threshold})

\* C10: the tables scanned so far that were taken are those with more than 50
\* direct child nodes, text nodes counted and nested elements not.
C10_DirectChildNodes ==
    pc \in {"scan", "rows", "exit"} =>
        t = Max({0} \cup {k \in DOMAIN tables :
                            k < ti /\ tables[k].texts + tables[k].kids > Threshold})

C10_Witness ==
    /\ pc = "rows"
    /\ Len(tables) = 2
    /\ tables[1].texts + tables[1].kids > Threshold
    /\ tables[1].kids + tables[1].deep <= Threshold
    /\ tables[2].texts + tables[2].kids <= Threshold
    /\ tables[2].kids + tables[2].deep > Threshold
    /\ t = 1

====
